---- MODULE Spec2Model ----
(***************************************************************************)
(* Model of the meme-video scheduler (scheduler.js, uploader.js) and of    *)
(* the functions its generate cycle is built from (index.js, fetchImages.js,*)
(* the Reddit token module).                                               *)
(*                                                                         *)
(* Time is counted in whole minutes since 00:00 UTC of day 0.  A Date is   *)
(* such a number; the Date methods the code uses are the operators         *)
(* getUTCHours, setUTCHours, addUTCDay, toISOString and DateParse below.   *)
(*                                                                         *)
(* Specifications:                                                         *)
(*   Spec       the output directory, `generate` in a producer process and *)
(*              `upload`/`status` in a publisher process side by side,     *)
(*              each split at its awaits;                                  *)
(*   CmdSpec    the four commands of main() run one after the other, in a  *)
(*              directory that also gets files the scheduler did not write;*)
(*   SchedSpec  calculateSchedule applied to every minute of a day, every  *)
(*              count up to MaxCount and every admissible sequence of      *)
(*              Date.now() readings;                                       *)
(*   LongSchedSpec  calculateSchedule for long batches, counts up to       *)
(*              MaxBatch, at three clock readings in every hour;           *)
(*   DeleteSpec deleteVideo called repeatedly on arbitrary paths;          *)
(*   RetrySpec  `upload` run again and again over a directory of finished  *)
(*              videos; RetryFairSpec adds the fairness of repeated runs;  *)
(*   FetchSpec  the loop of fetchMemes;                                    *)
(*   DownloadSpec  the download loop of a generate cycle and downloadImage;*)
(*   TokenSpec  getAccessToken and its token cache.                        *)
(***************************************************************************)
EXTENDS Integers, Sequences, FiniteSets, TLC

----------------------------------------------------------------------------
(* Bounds of the model *)

\* files ever created in the output directory in one behaviour
MaxVideos == 2
\* minutes the clock may advance between `new Date()` and a later Date.now()
MaxClockLag == 1
\* largest count given to calculateSchedule under SchedSpec
MaxCount == 4
\* largest count given to calculateSchedule under LongSchedSpec
MaxBatch == 50
\* largest --count given to `batch`
MaxBatchCount == 2
\* deleteVideo calls in one behaviour of DeleteSpec
MaxDeleteCalls == 3
\* entries of CONFIG.memeSources the model keeps (the program lists 17, all
\* different)
NumSources == 4
\* largest count given to fetchMemes
MaxMemeCount == 3
\* last reading of the Reddit module's clock, in seconds
MaxTokenClock == 8
\* token requests in one behaviour of TokenSpec
MaxTokenRequests == 3

----------------------------------------------------------------------------
(* Program constants *)

\* CONFIG.peakHoursEST.start
\* `fetchMemes(2)` in a generate cycle
MemesPerVideo == 2
\* the `60000` ms of getAccessToken, in seconds
TokenBufferSeconds == 60
PeakStartHour == 18
\* CONFIG.gapMinutes
GapMinutes == 30
\* const estOffset = -5
EstOffset == -5
\* `15 * 60 * 1000` ms in calculateSchedule
MinLeadMinutes == 15
HoursPerDay == 24
MinutesPerHour == 60
MinutesPerDay == HoursPerDay * MinutesPerHour

VARIABLES
  configured,     \* uploader.isConfigured(): client_secrets.json exists
  dirExists,      \* fs.existsSync(CONFIG.outputDir)
  outputDir,      \* entries of CONFIG.outputDir: records [name, mtime, complete]
  generated,      \* number of output paths chosen so far (names are timestamps)
  gcmd,           \* command line of the producer process: "none" | "generate" |
                  \* "batch" | "batch --dry-run"
  gpc,            \* "idle" | "encoding" | "writing" | "generated"
  gResult,        \* how the producer's last cycle or command ended
  batchLeft,      \* iterations the batch loop still has to start
  cmd,            \* command of the publisher process: "none" | "upload" | "batch" | "status"
  readFailed,     \* the last getPendingVideos hit a throwing readdirSync/statSync
  fatal,          \* "none", or why the publisher process exited with code 1
  published,      \* paths whose upload has returned success, over all runs
  delLog,         \* DeleteSpec: the deleteVideo calls made, in order
  retained,       \* RetrySpec: paths whose upload failed in a run that has returned
  pc,             \* "idle" | "uploading" | "awaiting" | "done" | "computed"
  dryRun,         \* options.dryRun of the current/last uploadAllPending
  pendingVideos,  \* the run's snapshot: sequence of paths, as sorted
  now,            \* `const now = new Date()` of the last calculateSchedule
  clockReads,     \* the Date.now() reading of each loop iteration
  schedule,       \* result of the last calculateSchedule
  i,              \* loop index of uploadAllPending (1-based)
  results,        \* the run's results array
  uploadCalls,    \* calls of uploader.uploadVideo in this run, in order
  inserts,        \* request bodies given to youtube.videos.insert in this run
  deleted,        \* paths unlinked by deleteVideo in this run
  fpc,            \* fetchMemes: "idle" | "loop" | "fetching" | "returned" | "thrown"
  fcount,         \* fetchMemes: its argument `count`
  memes,          \* fetchMemes: the array `memes`
  triedSources,   \* fetchMemes: the set `triedSources`
  fetchLog,       \* the sources given to fetchMemeFromSource, in order
  dpc,            \* download loop of a generate cycle: "idle" | "loop" | "encoder" | "thrown"
  dimpl,          \* whose generate cycle: "scheduler" (scheduler.js) | "index" (index.js)
  tempDir,        \* files written to CONFIG.tempDir in this cycle
  memePaths,      \* the array memePaths, handed to the encoder as its inputs
  writtenPaths,   \* the path each downloadImage call wrote and returned
  accessToken,    \* redditAuth: the cached token, 0 for null
  tokenExpiry,    \* redditAuth: the cached expiry in seconds, 0 for null
  tclock,         \* Date.now() of the Reddit module, in seconds
  tpc,            \* getAccessToken: "idle" | "authenticating"
  authRequests,   \* POSTs made to REDDIT_CONFIG.tokenUrl
  tokenCall       \* the last getAccessToken call: how it ended and what it saw

\* the producer process, the publisher process, the environment
producerVars == <<generated, gcmd, gpc, gResult, batchLeft>>
publisherVars == <<pc, dryRun, pendingVideos, now, clockReads, schedule, i, results,
                   uploadCalls, inserts, deleted, cmd, readFailed, fatal>>

\* the scheduler: its directory, its two processes, the history variables
schedulerVars == <<configured, dirExists, outputDir, published, delLog, retained,
                   producerVars, publisherVars>>

fetchVars == <<fpc, fcount, memes, triedSources, fetchLog>>

\* the functions a generate cycle is built from, each modelled on its own
imageVars == <<dpc, dimpl, tempDir, memePaths, writtenPaths>>

tokenVars == <<accessToken, tokenExpiry, tclock, tpc, authRequests, tokenCall>>

libraryVars == <<fetchVars, imageVars, tokenVars>>

vars == <<schedulerVars, libraryVars>>

----------------------------------------------------------------------------
(* Date arithmetic *)

getUTCHours(t) == (t % MinutesPerDay) \div MinutesPerHour

\* publishTime.setUTCDate(publishTime.getUTCDate() + 1)
addUTCDay(t) == t + MinutesPerDay

\* publishTime.setUTCHours(h, m, 0, 0): same UTC date, new time of day
setUTCHours(t, h, m) == (t \div MinutesPerDay) * MinutesPerDay + h * MinutesPerHour + m

\* Date.prototype.toISOString: the UTC calendar fields of the instant
toISOString(t) ==
  [day |-> t \div MinutesPerDay,
   hour |-> (t % MinutesPerDay) \div MinutesPerHour,
   minute |-> t % MinutesPerHour]

\* new Date(isoString): the instant of the calendar fields
DateParse(iso) == (iso.day * HoursPerDay + iso.hour) * MinutesPerHour + iso.minute

\* the reference-timezone (UTC-5) calendar day and hour of an instant
ESTDay(t) == (t + EstOffset * MinutesPerHour) \div MinutesPerDay
ESTHourOf(t) == ((t + EstOffset * MinutesPerHour) % MinutesPerDay) \div MinutesPerHour

----------------------------------------------------------------------------
(* calculateSchedule *)

estHour(t) == (getUTCHours(t) + EstOffset + HoursPerDay) % HoursPerDay

scheduleForTomorrow(t) == estHour(t) >= PeakStartHour

slotMinutes(k) == k * GapMinutes

targetUTCHour(k) ==
  (PeakStartHour - EstOffset + (slotMinutes(k) \div MinutesPerHour)) % HoursPerDay

targetUTCMinutes(k) == slotMinutes(k) % MinutesPerHour

\* the copy of `now`, moved to tomorrow's UTC date when scheduleForTomorrow
anchorDate(t) == IF scheduleForTomorrow(t) THEN addUTCDay(t) ELSE t

\* publishTime after setUTCHours, before the lead-time check (k is 0-based)
nominalTime(k, t) == setUTCHours(anchorDate(t), targetUTCHour(k), targetUTCMinutes(k))

ensureLeadNoAdvance(publishTime, dateNow) == publishTime

\* if (publishTime < minTime) publishTime.setUTCDate(getUTCDate() + 1)
ensureLead(publishTime, dateNow) ==
  IF publishTime < dateNow + MinLeadMinutes THEN addUTCDay(publishTime) ELSE publishTime

\* `reads[k]` is the value of Date.now() in iteration k (1-based)
calculateSchedule(count, t, reads) ==
  [k \in 1..count |-> ensureLead(nominalTime(k - 1, t), reads[k])]

\* the clock never runs backwards and advances at most MaxClockLag in a call
ClockReads(count, t) ==
  {r \in [1..count -> t..(t + MaxClockLag)] :
     \A k \in 1..count : k > 1 => r[k - 1] <= r[k]}

----------------------------------------------------------------------------
(* The output directory and getPendingVideos *)

\* a file name: `base` stands for the text before the extension; `hidden` is
\* name.startsWith('.')
VideoName(n) == [base |-> n, ext |-> "mp4", hidden |-> FALSE]

\* names the scheduler never writes but a desktop file manager leaves next to
\* the videos: "._meme_video.mp4" (a resource-fork twin) and ".DS_Store"
ForeignNames ==
  {[base |-> 0, ext |-> "mp4", hidden |-> TRUE],
   [base |-> 0, ext |-> "DS_Store", hidden |-> TRUE]}

\* f.endsWith('.mp4')
endsWithMp4(name) == name.ext = "mp4"

\* file.startsWith('.')
startsWithDot(name) == name.hidden

Names(dir) == {e.name : e \in dir}

\* fs.statSync(path).mtime
Mtime(dir, path) == (CHOOSE e \in dir : e.name = path).mtime

\* fs.readdirSync returns the entries in an order the file system chooses
Listings(dir) ==
  {l \in [1..Cardinality(dir) -> Names(dir)] :
     \A a, b \in 1..Cardinality(dir) : a # b => l[a] # l[b]}

RemoveAt(s, k) == [j \in 1..(Len(s) - 1) |-> IF j < k THEN s[j] ELSE s[j + 1]]

\* Array.prototype.sort with (a, b) => mtime(a) - mtime(b): stable, oldest first
RECURSIVE sortOldestFirst(_, _)
sortOldestFirst(dir, s) ==
  IF Len(s) = 0 THEN <<>>
  ELSE LET k == CHOOSE k \in 1..Len(s) :
                  \A j \in 1..Len(s) :
                     \/ Mtime(dir, s[k]) < Mtime(dir, s[j])
                     \/ Mtime(dir, s[k]) = Mtime(dir, s[j]) /\ k <= j
       IN  <<s[k]>> \o sortOldestFirst(dir, RemoveAt(s, k))

\* fs.readdirSync throws ENOENT for a missing directory and EACCES for an
\* unreadable one; fs.statSync throws for an entry that has gone meanwhile.
\* `readError` says that the environment makes one of the two calls throw.
readdirSyncThrows(exists, readError) == ~exists \/ readError

\* a getPendingVideos without its existsSync check
getPendingVideosThrowsUnguarded(exists, readError) == readdirSyncThrows(exists, readError)

\* getPendingVideos has no try/catch: past the existsSync check, what
\* readdirSync or statSync throws leaves the function
getPendingVideosThrows(exists, readError) ==
  exists /\ readdirSyncThrows(exists, readError)

\* .filter(f => f.endsWith('.mp4'))
mp4Filter(listing) == SelectSeq(listing, endsWithMp4)

\* the value getPendingVideos returns when nothing throws; path.join keeps
\* the name
getPendingVideos(exists, dir, listing) ==
  IF ~exists THEN <<>> ELSE sortOldestFirst(dir, mp4Filter(listing))

----------------------------------------------------------------------------
(* uploader.js *)

PrivacyStatuses == {"private", "public", "unlisted"}

\* `publishAt = null`: no calendar fields
NoPublishAt == [null |-> TRUE]

generateMetadataAsRequested(privacyStatus, publishAt) ==
  IF publishAt # NoPublishAt
    THEN [privacyStatus |-> privacyStatus, selfDeclaredMadeForKids |-> FALSE,
          publishAt |-> publishAt]
    ELSE [privacyStatus |-> privacyStatus, selfDeclaredMadeForKids |-> FALSE]

\* the `status` part of generateMetadata's result (the snippet is text only)
generateMetadata(privacyStatus, publishAt) ==
  IF publishAt # NoPublishAt
    THEN [privacyStatus |-> "private", selfDeclaredMadeForKids |-> FALSE,
          publishAt |-> publishAt]
    ELSE [privacyStatus |-> privacyStatus, selfDeclaredMadeForKids |-> FALSE]

\* what uploadVideo returns on success; videoUrl, studioUrl and title are
\* strings derived from videoId and the metadata and are left out
uploadSuccess(videoPath, publishAt) ==
  [success |-> TRUE, videoId |-> <<"yt", videoPath>>, publishAt |-> publishAt]

\* error.message of what uploadVideo throws
UploadErrors == {"notFound", "authError", "apiError"}

----------------------------------------------------------------------------
(* Initial state: a fresh checkout, nothing generated, no command run yet; *)
(* client_secrets.json is there or not                                     *)

\* no command has run yet
NothingRun ==
  /\ generated = 0
  /\ gcmd = "none"
  /\ gpc = "idle"
  /\ gResult = "none"
  /\ batchLeft = 0
  /\ pc = "idle"
  /\ cmd = "none"
  /\ readFailed = FALSE
  /\ fatal = "none"
  /\ dryRun = FALSE
  /\ pendingVideos = <<>>
  /\ now = 0
  /\ clockReads = <<>>
  /\ schedule = <<>>
  /\ i = 1
  /\ results = <<>>
  /\ uploadCalls = <<>>
  /\ inserts = <<>>
  /\ deleted = {}
  /\ published = {}
  /\ delLog = <<>>
  /\ retained = {}
  /\ fpc = "idle"
  /\ fcount = 0
  /\ memes = <<>>
  /\ triedSources = {}
  /\ fetchLog = <<>>
  /\ dpc = "idle"
  /\ dimpl = "scheduler"
  /\ tempDir = {}
  /\ memePaths = <<>>
  /\ writtenPaths = <<>>
  /\ accessToken = 0
  /\ tokenExpiry = 0
  /\ tclock = 1
  /\ tpc = "idle"
  /\ authRequests = 0
  /\ tokenCall = [outcome |-> "none", at |-> 0, seenToken |-> 0, seenExpiry |-> 0,
                  seenRequests |-> 0, token |-> 0, resolvedAt |-> 0, expiresIn |-> 0]

Init ==
  /\ configured \in BOOLEAN
  /\ dirExists = FALSE
  /\ outputDir = {}
  /\ NothingRun

----------------------------------------------------------------------------
(* Spec, the producer process: generateSingleVideo under `generate` and    *)
(* under the loop of `batch`                                               *)

\* what generateSingleVideo throws before it has chosen its output path:
\* 'No background videos found', fetchMemes' 'Could only find n memes', and
\* whatever downloadImage throws (request failure, HTML, invalid format)
PrepareErrors == {"noBackground", "memesExhausted", "downloadError"}

PrepareOutcomes == PrepareErrors \cup {"ready"}

\* generateSingleVideo from its entry to ffmpeg's run(): the directories are
\* made first; a failure throws up to main().catch, which ends the process;
\* otherwise the output path meme_video_<timestamp>.mp4 is chosen (timestamps
\* only grow: the next tick of the generation clock) and ffmpeg is started
generateSingleVideoStart(outcome) ==
  /\ dirExists' = TRUE
  /\ IF outcome \in PrepareErrors
       THEN /\ gpc' = "idle"
            /\ gResult' = outcome
            /\ generated' = generated
       ELSE /\ gpc' = "encoding"
            /\ gResult' = "none"
            /\ generated' = generated + 1

\* the path ffmpeg was given: cmd.output(outputPath)
outputPath == VideoName(generated)

\* case 'generate', up to the await of the encoder
caseGenerate(outcome) ==
  /\ gpc = "idle"
  /\ generated < MaxVideos
  /\ outcome \in PrepareOutcomes
  /\ gcmd' = "generate"
  /\ batchLeft' = 0
  /\ generateSingleVideoStart(outcome)
  /\ UNCHANGED <<configured, outputDir, published, delLog, retained, libraryVars>>

\* case 'batch': the loop is entered with args.count iterations to go; the
\* command line is `batch` or `batch --dry-run`
caseBatch(count, dry) ==
  /\ gpc = "idle"
  /\ count \in 0..MaxBatchCount
  /\ generated + count <= MaxVideos
  /\ gcmd' = IF dry THEN "batch --dry-run" ELSE "batch"
  /\ batchLeft' = count
  /\ gpc' = "batchLoop"
  /\ gResult' = "none"
  /\ UNCHANGED <<configured, dirExists, outputDir, generated, published, delLog, retained, libraryVars>>

\* a loop whose body catches what generateSingleVideo throws and goes on
BatchLoopIterationSwallows(outcome) ==
  /\ gpc = "batchLoop"
  /\ batchLeft > 0
  /\ outcome \in PrepareOutcomes
  /\ batchLeft' = batchLeft - 1
  /\ dirExists' = TRUE
  /\ IF outcome \in PrepareErrors
       THEN /\ gpc' = "batchLoop"
            /\ gResult' = outcome
            /\ generated' = generated
       ELSE /\ gpc' = "encoding"
            /\ gResult' = "none"
            /\ generated' = generated + 1
  /\ UNCHANGED <<configured, outputDir, gcmd, published, delLog, retained, libraryVars,
                 publisherVars>>

\* `for (let i = 0; i < args.count; i++) await generateSingleVideo()`: one
\* more iteration is started; batchLeft counts the iterations not yet started,
\* also when this one throws and the loop is left
BatchLoopIteration(outcome) ==
  /\ gpc = "batchLoop"
  /\ batchLeft > 0
  /\ outcome \in PrepareOutcomes
  /\ batchLeft' = batchLeft - 1
  /\ generateSingleVideoStart(outcome)
  /\ UNCHANGED <<configured, outputDir, gcmd, published, delLog, retained, libraryVars,
                 publisherVars>>

\* ffmpeg opens its output: the file appears in CONFIG.outputDir under its
\* final name while the encoding goes on
EncoderOpensOutput ==
  /\ gpc = "encoding"
  /\ outputDir' = outputDir \cup
                    {[name |-> outputPath, mtime |-> generated, complete |-> FALSE]}
  /\ gpc' = "writing"
  /\ UNCHANGED <<configured, dirExists, generated, gcmd, gResult, batchLeft,
                 published, delLog, retained, libraryVars, publisherVars>>

\* .on('error', reject): the encoder fails, before or after it has opened its
\* output; nothing removes what it wrote; the throw ends the process
EncoderFails ==
  /\ gpc \in {"encoding", "writing"}
  /\ gpc' = "idle"
  /\ gResult' = "encoderError"
  /\ UNCHANGED <<configured, dirExists, outputDir, generated, gcmd, batchLeft,
                 published, delLog, retained, libraryVars, publisherVars>>

\* the file at `path`, if it is still there, now holds the whole video
closeOutput(dir, path) ==
  {IF e.name = path THEN [e EXCEPT !.complete = TRUE] ELSE e : e \in dir}

\* .on('end', resolve): the encoder is done and generateSingleVideo returns.
\* Under `generate` main calls getPendingVideos for its count; under `batch`
\* the loop goes on
EncoderEnds(readError) ==
  /\ gpc = "writing"
  /\ outputDir' = closeOutput(outputDir, outputPath)
  /\ IF gcmd \in {"batch", "batch --dry-run"}
       THEN /\ gpc' = "batchLoop"
            /\ gResult' = "none"
       ELSE /\ gpc' = "idle"
            /\ gResult' = IF getPendingVideosThrows(dirExists, readError)
                            THEN "readError" ELSE "ok"
  /\ UNCHANGED <<configured, dirExists, generated, gcmd, batchLeft, published,
                 delLog, retained, libraryVars, publisherVars>>

\* a file the scheduler did not write appears in the output directory, between
\* two producer cycles; it takes the next tick of the clock that also names
\* the videos, so that MaxVideos bounds the files ever created
ForeignEntryAppears(name) ==
  /\ dirExists
  /\ gpc = "idle"
  /\ generated < MaxVideos
  /\ name \in ForeignNames
  /\ name \notin Names(outputDir)
  /\ generated' = generated + 1
  /\ outputDir' = outputDir \cup
                    {[name |-> name, mtime |-> generated + 1, complete |-> TRUE]}
  /\ UNCHANGED <<configured, dirExists, published, delLog, retained, libraryVars, gcmd, gpc, gResult,
                 batchLeft, publisherVars>>

----------------------------------------------------------------------------
(* Spec, the publisher process: `upload`, `status`, and the upload step of *)
(* `batch`                                                                 *)

\* clock readings at which an upload run is started: 10:00 UTC (05:00 in the
\* reference zone), 22:50 UTC (17:50, ten minutes before the peak start),
\* 23:30 UTC (18:30, past the peak start) and 02:00 UTC (21:00), all on day 1
RunTimes ==
  {MinutesPerDay + 10 * MinutesPerHour,
   MinutesPerDay + 22 * MinutesPerHour + 50,
   MinutesPerDay + 23 * MinutesPerHour + 30,
   MinutesPerDay + 2 * MinutesPerHour}

\* within a run the loop of calculateSchedule takes no measurable time: all
\* its Date.now() readings agree, at most MaxClockLag after `new Date()`
RunClockReads(count, t) == {[k \in 1..count |-> t + d] : d \in 0..MaxClockLag}

\* the dry-run results: pendingVideos.map((p, i) => ({videoPath, scheduledFor, dryRun}))
dryRunResults(pending, sched) ==
  [k \in 1..Len(pending) |->
     [videoPath |-> pending[k], scheduledFor |-> sched[k], dryRun |-> TRUE]]

\* a command of the publisher process starts with nothing uploaded or deleted
freshRun ==
  /\ i' = 1
  /\ uploadCalls' = <<>>
  /\ inserts' = <<>>
  /\ deleted' = {}

\* process.exit(1): by main's own check, or by main().catch for a throw that
\* nothing caught
processExit(cause) ==
  /\ fatal' = cause
  /\ pc' = "done"
  /\ pendingVideos' = <<>>
  /\ results' = <<>>
  /\ freshRun
  /\ UNCHANGED <<now, clockReads, schedule>>

\* an uploadAllPending whose `if (dryRun)` return is missing
UploadAllPendingStartNoDryReturn(dry, readError) ==
  /\ pc \in {"idle", "done"}
  /\ dryRun' = dry
  /\ readFailed' = getPendingVideosThrows(dirExists, readError)
  /\ IF getPendingVideosThrows(dirExists, readError)
       THEN processExit("uncaught")
       ELSE \E pending \in {getPendingVideos(dirExists, outputDir, listing) :
                              listing \in Listings(outputDir)} :
              /\ pendingVideos' = pending
              /\ fatal' = "none"
              /\ freshRun
              /\ results' = <<>>
              /\ IF Len(pending) = 0
                   THEN /\ pc' = "done"
                        /\ UNCHANGED <<now, clockReads, schedule>>
                   ELSE \E t \in RunTimes :
                        \E reads \in RunClockReads(Len(pending), t) :
                          /\ now' = t
                          /\ clockReads' = reads
                          /\ schedule' = calculateSchedule(Len(pending), t, reads)
                          /\ pc' = "uploading"

\* an uploadAllPending that resumes a schedule kept from the run before it
\* instead of computing one
UploadAllPendingStartResumes(dry, readError) ==
  /\ pc \in {"idle", "done"}
  /\ dryRun' = dry
  /\ readFailed' = getPendingVideosThrows(dirExists, readError)
  /\ IF getPendingVideosThrows(dirExists, readError)
       THEN processExit("uncaught")
       ELSE \E pending \in {getPendingVideos(dirExists, outputDir, listing) :
                              listing \in Listings(outputDir)} :
              /\ pendingVideos' = pending
              /\ fatal' = "none"
              /\ freshRun
              /\ IF Len(pending) = 0
                   THEN /\ results' = <<>>
                        /\ pc' = "done"
                        /\ UNCHANGED <<now, clockReads, schedule>>
                   ELSE \E t \in RunTimes :
                        \E reads \in RunClockReads(Len(pending), t) :
                          /\ now' = t
                          /\ clockReads' = reads
                          /\ schedule' = IF Len(schedule) > Len(pending)
                                           THEN SubSeq(schedule, Len(schedule) - Len(pending) + 1,
                                                       Len(schedule))
                                           ELSE calculateSchedule(Len(pending), t, reads)
                          /\ IF dry
                               THEN /\ results' = dryRunResults(pending, schedule')
                                    /\ pc' = "done"
                               ELSE /\ results' = <<>>
                                    /\ pc' = "uploading"

\* uploadAllPending from its entry to its first await or its return:
\* snapshot (a throw of getPendingVideos leaves through main().catch),
\* empty-queue return, schedule, dry-run return, loop entry
UploadAllPendingStart(dry, readError) ==
  /\ pc \in {"idle", "done"}
  /\ dryRun' = dry
  /\ readFailed' = getPendingVideosThrows(dirExists, readError)
  /\ IF getPendingVideosThrows(dirExists, readError)
       THEN processExit("uncaught")
       ELSE \E pending \in {getPendingVideos(dirExists, outputDir, listing) :
                              listing \in Listings(outputDir)} :
              /\ pendingVideos' = pending
              /\ fatal' = "none"
              /\ freshRun
              /\ IF Len(pending) = 0
                   THEN /\ results' = <<>>
                        /\ pc' = "done"
                        /\ UNCHANGED <<now, clockReads, schedule>>
                   ELSE \E t \in RunTimes :
                        \E reads \in RunClockReads(Len(pending), t) :
                          /\ now' = t
                          /\ clockReads' = reads
                          /\ schedule' = calculateSchedule(Len(pending), t, reads)
                          /\ IF dry
                               THEN /\ results' = dryRunResults(pending, schedule')
                                    /\ pc' = "done"
                               ELSE /\ results' = <<>>
                                    /\ pc' = "uploading"

\* case 'upload': without client_secrets.json the process exits with code 1
\* before uploadAllPending is called
caseUpload(dry, readError) ==
  /\ pc \in {"idle", "done"}
  /\ cmd' = "upload"
  /\ IF ~configured
       THEN /\ processExit("notConfigured")
            /\ UNCHANGED <<dryRun, readFailed>>
       ELSE UploadAllPendingStart(dry, readError)
  /\ UNCHANGED <<configured, dirExists, outputDir, published, delLog>>

\* case 'batch' after its loop: the upload is run only when neither --dry-run
\* was given nor client_secrets.json is missing; otherwise main returns
BatchUploadStep(readError) ==
  /\ gpc = "batchLoop"
  /\ batchLeft = 0
  /\ gpc' = "idle"
  /\ IF gcmd = "batch" /\ configured
       THEN /\ cmd' = "batch"
            /\ gResult' = "ok"
            /\ UploadAllPendingStart(FALSE, readError)
       ELSE /\ gResult' = IF gcmd = "batch" THEN "uploadSkipped" ELSE "ok"
            /\ UNCHANGED publisherVars
  /\ UNCHANGED <<configured, dirExists, outputDir, generated, gcmd, batchLeft,
                 published, delLog, retained, libraryVars>>

\* case 'status': showStatus lists the pending videos
caseStatus(readError) ==
  /\ pc \in {"idle", "done"}
  /\ cmd' = "status"
  /\ readFailed' = getPendingVideosThrows(dirExists, readError)
  /\ IF getPendingVideosThrows(dirExists, readError)
       THEN processExit("uncaught")
       ELSE \E pending \in {getPendingVideos(dirExists, outputDir, listing) :
                              listing \in Listings(outputDir)} :
              /\ pendingVideos' = pending
              /\ fatal' = "none"
              /\ pc' = "done"
              /\ results' = <<>>
              /\ freshRun
              /\ UNCHANGED <<now, clockReads, schedule>>
  /\ UNCHANGED <<configured, dirExists, outputDir, published, delLog, retained, libraryVars, dryRun>>

\* the options of the uploader.uploadVideo call for item k
uploadOptions(k) ==
  [privacyStatus |-> "private", publishAt |-> toISOString(schedule[k])]

\* `await uploader.uploadVideo(videoPath, {privacyStatus, publishAt})` is issued
UploadVideoCall ==
  /\ pc = "uploading"
  /\ uploadCalls' = Append(uploadCalls,
                           [videoPath |-> pendingVideos[i], options |-> uploadOptions(i)])
  /\ pc' = "awaiting"
  /\ UNCHANGED <<configured, dirExists, outputDir, published, delLog, retained, libraryVars,
                 producerVars, dryRun, pendingVideos, now, clockReads, schedule, i,
                 results, inserts, deleted, cmd, readFailed, fatal>>

\* the request body uploadVideo gives to youtube.videos.insert for item k
insertRequest(k) ==
  [index |-> k,
   videoPath |-> pendingVideos[k],
   status |-> generateMetadata(uploadCalls[k].options.privacyStatus,
                               uploadCalls[k].options.publishAt)]

\* for (...; i++) and the return after the last item
loopNext(k, n) == IF k + 1 > n THEN "done" ELSE "uploading"

\* the catch block: results.push({success: false, error, videoPath})
failureResult(err, videoPath) == [success |-> FALSE, error |-> err, videoPath |-> videoPath]

\* a catch block that gives up the batch at the first failure
UploadVideoRejectsAborts(err) ==
  /\ pc = "awaiting"
  /\ err \in UploadErrors
  /\ (err = "notFound") <=> (pendingVideos[i] \notin Names(outputDir))
  /\ inserts' = IF err = "apiError" THEN Append(inserts, insertRequest(i)) ELSE inserts
  /\ results' = Append(results, failureResult(err, pendingVideos[i]))
  /\ i' = i + 1
  /\ pc' = "done"
  /\ UNCHANGED <<configured, dirExists, outputDir, published, delLog, retained, libraryVars,
                 producerVars, dryRun, pendingVideos, now, clockReads, schedule,
                 uploadCalls, deleted, cmd, readFailed, fatal>>

\* a catch block that cleans the file up as the success path does
UploadVideoRejectsDeletes(err) ==
  /\ pc = "awaiting"
  /\ err \in UploadErrors
  /\ (err = "notFound") <=> (pendingVideos[i] \notin Names(outputDir))
  /\ inserts' = IF err = "apiError" THEN Append(inserts, insertRequest(i)) ELSE inserts
  /\ results' = Append(results, failureResult(err, pendingVideos[i]))
  /\ outputDir' = {e \in outputDir : e.name # pendingVideos[i]}
  /\ deleted' = deleted \cup {pendingVideos[i]}
  /\ i' = i + 1
  /\ pc' = loopNext(i, Len(pendingVideos))
  /\ UNCHANGED <<configured, dirExists, published, delLog, retained, libraryVars,
                 producerVars, dryRun, pendingVideos, now, clockReads, schedule,
                 uploadCalls, cmd, readFailed, fatal>>

\* uploadVideo throws (file missing, authorization, or the insert itself);
\* the catch block records the failure and keeps the file
UploadVideoRejects(err) ==
  /\ pc = "awaiting"
  /\ err \in UploadErrors
  /\ (err = "notFound") <=> (pendingVideos[i] \notin Names(outputDir))
  /\ inserts' = IF err = "apiError" THEN Append(inserts, insertRequest(i)) ELSE inserts
  /\ results' = Append(results, failureResult(err, pendingVideos[i]))
  /\ i' = i + 1
  /\ pc' = loopNext(i, Len(pendingVideos))
  /\ UNCHANGED <<configured, dirExists, outputDir, published, delLog, retained, libraryVars,
                 producerVars, dryRun, pendingVideos, now, clockReads, schedule,
                 uploadCalls, deleted, cmd, readFailed, fatal>>

\* results.push({...result, videoPath, scheduledFor: publishTime})
successResult(k) ==
  [success |-> TRUE,
   videoId |-> uploadSuccess(pendingVideos[k], uploadCalls[k].options.publishAt).videoId,
   publishAt |-> uploadSuccess(pendingVideos[k], uploadCalls[k].options.publishAt).publishAt,
   videoPath |-> pendingVideos[k],
   scheduledFor |-> schedule[k]]

\* fs.unlinkSync(videoPath)
unlinkSync(dir, videoPath) == {e \in dir : e.name # videoPath}

\* a deleteVideo without its existsSync check: unlinkSync throws ENOENT for
\* a path that is not there
deleteVideoUnguarded(dir, videoPath, unlinkThrows) ==
  IF unlinkThrows \/ videoPath \notin Names(dir)
    THEN [dir |-> dir, threw |-> TRUE]
    ELSE [dir |-> unlinkSync(dir, videoPath), threw |-> FALSE]

\* deleteVideo: the directory it leaves and whether it threw; `unlinkThrows`
\* says that the environment makes unlinkSync throw (EACCES, EBUSY, EPERM)
deleteVideo(dir, videoPath, unlinkThrows) ==
  IF videoPath \in Names(dir)
    THEN IF unlinkThrows
           THEN [dir |-> dir, threw |-> TRUE]
           ELSE [dir |-> unlinkSync(dir, videoPath), threw |-> FALSE]
    ELSE [dir |-> dir, threw |-> FALSE]

\* uploadVideo returns success; the result is pushed and deleteVideo is called
\* inside the same try block: unlinkSync either removes the file or throws,
\* and a throw lands in the catch block, which pushes a failure result
UploadVideoResolves(unlinkThrows) ==
  /\ pc = "awaiting"
  /\ pendingVideos[i] \in Names(outputDir)
  /\ inserts' = Append(inserts, insertRequest(i))
  /\ published' = published \cup {pendingVideos[i]}
  /\ outputDir' = deleteVideo(outputDir, pendingVideos[i], unlinkThrows).dir
  /\ IF deleteVideo(outputDir, pendingVideos[i], unlinkThrows).threw
       THEN /\ results' = Append(Append(results, successResult(i)),
                                 failureResult("unlinkError", pendingVideos[i]))
            /\ deleted' = deleted
       ELSE /\ results' = Append(results, successResult(i))
            /\ deleted' = deleted \cup {pendingVideos[i]}
  /\ i' = i + 1
  /\ pc' = loopNext(i, Len(pendingVideos))
  /\ UNCHANGED <<configured, dirExists, delLog, retained, libraryVars, producerVars, dryRun, pendingVideos,
                 now, clockReads, schedule, uploadCalls, cmd, readFailed, fatal>>

\* two processes side by side: a producer running `generate` and a publisher
\* running `upload` or `status`; each command is a process of its own
MainGenerate(outcome) == caseGenerate(outcome) /\ UNCHANGED publisherVars

MainUpload(dry, readError) ==
  caseUpload(dry, readError) /\ UNCHANGED <<producerVars, retained, libraryVars>>

MainStatus(readError) == caseStatus(readError) /\ UNCHANGED producerVars

Next ==
  \/ \E outcome \in PrepareOutcomes : MainGenerate(outcome)
  \/ EncoderOpensOutput
  \/ EncoderFails
  \/ \E readError \in BOOLEAN : EncoderEnds(readError)
  \/ \E dry, readError \in BOOLEAN : MainUpload(dry, readError)
  \/ \E readError \in BOOLEAN : MainStatus(readError)
  \/ UploadVideoCall
  \/ \E err \in UploadErrors : UploadVideoRejects(err)
  \/ \E unlinkThrows \in BOOLEAN : UploadVideoResolves(unlinkThrows)

Spec == Init /\ [][Next]_vars

----------------------------------------------------------------------------
(* CmdSpec: the four commands of main() run one after the other, each as a *)
(* new process, in a directory a file manager also writes to               *)

\* no command is running
Quiescent == gpc = "idle" /\ pc \in {"idle", "done"}

\* a new process knows nothing of what the process before it produced
freshProducer ==
  /\ gcmd' = "none"
  /\ gpc' = "idle"
  /\ gResult' = "none"
  /\ batchLeft' = 0
  /\ generated' = generated

\* a new process knows nothing of what the process before it uploaded
freshPublisher ==
  /\ pc' = "idle"
  /\ cmd' = "none"
  /\ readFailed' = FALSE
  /\ fatal' = "none"
  /\ dryRun' = FALSE
  /\ pendingVideos' = <<>>
  /\ results' = <<>>
  /\ now' = 0
  /\ clockReads' = <<>>
  /\ schedule' = <<>>
  /\ freshRun

CmdGenerate(outcome) == Quiescent /\ caseGenerate(outcome) /\ freshPublisher

CmdBatch(count, dry) == Quiescent /\ caseBatch(count, dry) /\ freshPublisher

CmdUpload(dry, readError) ==
  Quiescent /\ caseUpload(dry, readError) /\ freshProducer /\ UNCHANGED <<retained, libraryVars>>

CmdStatus(readError) == Quiescent /\ caseStatus(readError) /\ freshProducer

CmdForeignEntryAppears(name) == Quiescent /\ ForeignEntryAppears(name)

CmdNext ==
  \/ \E outcome \in PrepareOutcomes : CmdGenerate(outcome)
  \/ \E count \in 0..MaxBatchCount, dry \in BOOLEAN : CmdBatch(count, dry)
  \/ \E outcome \in PrepareOutcomes : BatchLoopIteration(outcome)
  \/ EncoderOpensOutput
  \/ EncoderFails
  \/ \E readError \in BOOLEAN : EncoderEnds(readError)
  \/ \E name \in ForeignNames : CmdForeignEntryAppears(name)
  \/ \E dry, readError \in BOOLEAN : CmdUpload(dry, readError)
  \/ \E readError \in BOOLEAN : BatchUploadStep(readError)
  \/ \E readError \in BOOLEAN : CmdStatus(readError)
  \/ UploadVideoCall
  \/ \E err \in UploadErrors : UploadVideoRejects(err)
  \/ \E unlinkThrows \in BOOLEAN : UploadVideoResolves(unlinkThrows)

CmdSpec == Init /\ [][CmdNext]_vars

----------------------------------------------------------------------------
(* DeleteSpec: deleteVideo called on arbitrary paths of an arbitrary       *)
(* directory                                                               *)

\* finished videos a directory may hold
FinishedVideos ==
  {[name |-> VideoName(n), mtime |-> n, complete |-> TRUE] : n \in 1..MaxVideos}

DeleteInit ==
  /\ configured = TRUE
  /\ dirExists = TRUE
  /\ outputDir \in SUBSET FinishedVideos
  /\ NothingRun

\* deleteVideo(videoPath); the log keeps the directory before and after the
\* call and whether the call threw
DeleteVideoCall ==
  /\ Len(delLog) < MaxDeleteCalls
  /\ \E n \in 1..MaxVideos, unlinkThrows \in BOOLEAN :
       /\ outputDir' = deleteVideo(outputDir, VideoName(n), unlinkThrows).dir
       /\ delLog' = Append(delLog,
                           [videoPath |-> VideoName(n),
                            before |-> outputDir,
                            threw |-> deleteVideo(outputDir, VideoName(n), unlinkThrows).threw,
                            after |-> deleteVideo(outputDir, VideoName(n), unlinkThrows).dir])
  /\ UNCHANGED <<configured, dirExists, published, retained, libraryVars, producerVars,
                 publisherVars>>

DeleteNext == DeleteVideoCall

DeleteSpec == DeleteInit /\ [][DeleteNext]_vars

----------------------------------------------------------------------------
(* FetchSpec: fetchMemes (the same loop in scheduler.js, index.js and      *)
(* fetchImages.js), split at its await                                     *)

\* CONFIG.memeSources / indexConfig.memeSources: a list without repetitions
MemeSources == 1..NumSources

\* a pick among all configured sources, tried or not
availableSourcesUnfiltered(tried) == MemeSources

\* memeSources.filter(s => !triedSources.has(s))
availableSources(tried) == {s \in MemeSources : s \notin tried}

\* memes.length < count && triedSources.size < memeSources.length
fetchLoopCondition ==
  Len(memes) < fcount /\ Cardinality(triedSources) < NumSources

\* fetchMemes(count) is called: memes = [], triedSources = new Set()
FetchMemesCall(count) ==
  /\ fpc \in {"idle", "returned", "thrown"}
  /\ count \in 0..MaxMemeCount
  /\ fcount' = count
  /\ memes' = <<>>
  /\ triedSources' = {}
  /\ fetchLog' = <<>>
  /\ fpc' = "loop"
  /\ UNCHANGED <<schedulerVars, imageVars, tokenVars>>

\* one pass of the loop up to its await: a random available source is marked
\* as tried and given to fetchMemeFromSource
FetchPicksSource(source) ==
  /\ fpc = "loop"
  /\ fetchLoopCondition
  /\ source \in availableSources(triedSources)
  /\ triedSources' = triedSources \cup {source}
  /\ fetchLog' = Append(fetchLog, source)
  /\ fpc' = "fetching"
  /\ UNCHANGED <<schedulerVars, imageVars, tokenVars, fcount, memes>>

\* what fetchMemeFromSource resolves to: a meme of that source, or null when
\* the request failed or the source had no image post (its try/catch lets
\* nothing out)
FetchOutcomes == {"meme", "null"}

\* `const meme = await fetchMemeFromSource(source); if (meme) memes.push(meme)`
FetchMemeFromSourceReturns(outcome) ==
  /\ fpc = "fetching"
  /\ outcome \in FetchOutcomes
  /\ memes' = IF outcome = "meme"
                THEN Append(memes, [source |-> fetchLog[Len(fetchLog)]])
                ELSE memes
  /\ fpc' = "loop"
  /\ UNCHANGED <<schedulerVars, imageVars, tokenVars, fcount, triedSources, fetchLog>>

\* the loop is left: `if (memes.length < count) throw`, else `return memes`
FetchMemesEnds ==
  /\ fpc = "loop"
  /\ ~fetchLoopCondition
  /\ fpc' = IF Len(memes) < fcount THEN "thrown" ELSE "returned"
  /\ UNCHANGED <<schedulerVars, imageVars, tokenVars, fcount, memes, triedSources, fetchLog>>

FetchNext ==
  \/ \E count \in 0..MaxMemeCount : FetchMemesCall(count)
  \/ \E source \in MemeSources : FetchPicksSource(source)
  \/ \E outcome \in FetchOutcomes : FetchMemeFromSourceReturns(outcome)
  \/ FetchMemesEnds

FetchSpec == Init /\ [][FetchNext]_vars

----------------------------------------------------------------------------
(* DownloadSpec: the download loop of a generate cycle (generateSingleVideo *)
(* of scheduler.js, main of index.js) and the downloadImage each calls     *)

\* path.extname(meme.url) without its dot; "" when the URL has no extension
UrlExtensions == {"jpg", "jpeg", "png", "gif", "webp", "JPG", ""}

\* what the first bytes of the downloaded buffer are
ImageSignatures == {"JPEG", "PNG", "GIF", "WEBP"}

Signatures == ImageSignatures \cup {"HTML", "other"}

\* String.prototype.toLowerCase on the extensions above
toLowerCase(ext) == IF ext = "JPG" THEN "jpg" ELSE ext

\* `path.extname(url) || '.jpg'`
extOrJpg(urlExt) == IF urlExt = "" THEN "jpg" ELSE urlExt

\* path.join(tempDir, `meme${i + 1}${ext}`), k = i + 1
tempPath(k, urlExt) == [base |-> k, ext |-> extOrJpg(urlExt)]

\* outputPath.replace(/\.[^.]+$/, '.' + ext)
replaceExt(path, ext) == [path EXCEPT !.ext = ext]

\* downloadImage throws 'Got HTML instead of image' / 'Invalid image format'
downloadImageThrows(sig) == sig \notin ImageSignatures

\* correctedPath of the downloadImage nested in generateSingleVideo: the
\* extension is always rewritten for JPEG, PNG and GIF
correctedPathScheduler(path, sig) ==
  CASE sig = "JPEG" -> replaceExt(path, "jpg")
    [] sig = "PNG" -> replaceExt(path, "png")
    [] sig = "GIF" -> replaceExt(path, "gif")
    [] OTHER -> path

\* correctedPath of index.js' downloadImage: rewritten only when the
\* lower-cased path does not end with an extension of the detected format
correctedPathIndex(path, sig) ==
  IF sig = "JPEG" /\ toLowerCase(path.ext) \notin {"jpg", "jpeg"}
    THEN replaceExt(path, "jpg")
  ELSE IF sig = "PNG" /\ toLowerCase(path.ext) # "png"
    THEN replaceExt(path, "png")
  ELSE IF sig = "GIF" /\ toLowerCase(path.ext) # "gif"
    THEN replaceExt(path, "gif")
  ELSE path

\* the path downloadImage writes the buffer to and returns
downloadImage(impl, path, sig) ==
  IF impl = "scheduler" THEN correctedPathScheduler(path, sig)
                        ELSE correctedPathIndex(path, sig)

\* the memes are fetched and the download loop is entered with memePaths = []
DownloadLoopStart(impl) ==
  /\ dpc \in {"idle", "encoder", "thrown"}
  /\ impl \in {"scheduler", "index"}
  /\ dimpl' = impl
  /\ dpc' = "loop"
  /\ tempDir' = {}
  /\ memePaths' = <<>>
  /\ writtenPaths' = <<>>
  /\ UNCHANGED <<schedulerVars, fetchVars, tokenVars>>

\* one pass of the loop: `await downloadImage(memes[i].url, tempPath);
\* memePaths.push(tempPath)`; what downloadImage returns is dropped. After
\* the last pass memePaths goes to the encoder as its inputs
DownloadImageCall(urlExt, sig) ==
  /\ dpc = "loop"
  /\ urlExt \in UrlExtensions
  /\ sig \in Signatures
  /\ IF downloadImageThrows(sig)
       THEN /\ dpc' = "thrown"
            /\ UNCHANGED <<tempDir, memePaths, writtenPaths>>
       ELSE /\ tempDir' = tempDir \cup
                            {downloadImage(dimpl, tempPath(Len(memePaths) + 1, urlExt), sig)}
            /\ writtenPaths' = Append(writtenPaths,
                                      downloadImage(dimpl, tempPath(Len(memePaths) + 1, urlExt), sig))
            /\ memePaths' = Append(memePaths, tempPath(Len(memePaths) + 1, urlExt))
            /\ dpc' = IF Len(memePaths) + 1 = MemesPerVideo THEN "encoder" ELSE "loop"
  /\ UNCHANGED <<schedulerVars, fetchVars, tokenVars, dimpl>>

DownloadNext ==
  \/ \E impl \in {"scheduler", "index"} : DownloadLoopStart(impl)
  \/ \E urlExt \in UrlExtensions, sig \in Signatures : DownloadImageCall(urlExt, sig)

DownloadSpec == Init /\ [][DownloadNext]_vars

----------------------------------------------------------------------------
(* TokenSpec: getAccessToken of the Reddit module and its token cache,     *)
(* split at its await; time in seconds                                     *)

\* response.data.expires_in: a token that is past its expiry a second
\* later, and tokens that last exactly the buffer, one and two seconds more
TokenLifetimes == {1, TokenBufferSeconds, TokenBufferSeconds + 1, TokenBufferSeconds + 2}

\* a cache test without the one-minute buffer
tokenIsCachedNoBuffer(token, expiry, t) == token # 0 /\ expiry # 0 /\ t < expiry

\* accessToken && tokenExpiry && Date.now() < tokenExpiry - 60000
tokenIsCached(token, expiry, t) ==
  token # 0 /\ expiry # 0 /\ t < expiry - TokenBufferSeconds

\* time passes
TokenClockTick ==
  /\ tclock < MaxTokenClock
  /\ tclock' = tclock + 1
  /\ UNCHANGED <<schedulerVars, fetchVars, imageVars, accessToken, tokenExpiry, tpc,
                 authRequests, tokenCall>>

\* getAccessToken up to its return of the cached token or to its await of
\* axios.post(REDDIT_CONFIG.tokenUrl, ...)
GetAccessTokenCall ==
  /\ tpc = "idle"
  /\ IF tokenIsCached(accessToken, tokenExpiry, tclock)
       THEN /\ tokenCall' = [outcome |-> "cached", at |-> tclock,
                             seenToken |-> accessToken, seenExpiry |-> tokenExpiry,
                             seenRequests |-> authRequests, token |-> accessToken,
                             resolvedAt |-> tclock, expiresIn |-> 0]
            /\ UNCHANGED <<tpc, authRequests>>
       ELSE /\ authRequests < MaxTokenRequests
            /\ tokenCall' = [outcome |-> "pending", at |-> tclock,
                             seenToken |-> accessToken, seenExpiry |-> tokenExpiry,
                             seenRequests |-> authRequests, token |-> 0,
                             resolvedAt |-> 0, expiresIn |-> 0]
            /\ tpc' = "authenticating"
            /\ authRequests' = authRequests + 1
  /\ UNCHANGED <<schedulerVars, fetchVars, imageVars, accessToken, tokenExpiry, tclock>>

\* the POST resolves: the new token (the n-th request yields token n) and its
\* expiry, counted from the Date.now() of this moment, are cached and the
\* token is returned
TokenRequestResolves(expiresIn) ==
  /\ tpc = "authenticating"
  /\ expiresIn \in TokenLifetimes
  /\ accessToken' = authRequests
  /\ tokenExpiry' = tclock + expiresIn
  /\ tokenCall' = [tokenCall EXCEPT !.outcome = "fresh", !.token = authRequests,
                                    !.resolvedAt = tclock, !.expiresIn = expiresIn]
  /\ tpc' = "idle"
  /\ UNCHANGED <<schedulerVars, fetchVars, imageVars, tclock, authRequests>>

\* the POST rejects: the catch block throws 'Failed to authenticate with
\* Reddit API'; neither module variable has been assigned
TokenRequestRejects ==
  /\ tpc = "authenticating"
  /\ tokenCall' = [tokenCall EXCEPT !.outcome = "thrown", !.resolvedAt = tclock]
  /\ tpc' = "idle"
  /\ UNCHANGED <<schedulerVars, fetchVars, imageVars, accessToken, tokenExpiry, tclock,
                 authRequests>>

TokenNext ==
  \/ TokenClockTick
  \/ GetAccessTokenCall
  \/ \E expiresIn \in TokenLifetimes : TokenRequestResolves(expiresIn)
  \/ TokenRequestRejects

TokenSpec == Init /\ [][TokenNext]_vars

----------------------------------------------------------------------------
(* SchedSpec: calculateSchedule as a function of the clock and the count *)

\* the minutes of day 1 (a whole UTC day, both sides of every boundary)
DayMinutes == MinutesPerDay..(2 * MinutesPerDay - 1)

CalculateScheduleCall ==
  /\ pc = "idle"
  /\ \E count \in 0..MaxCount, t \in DayMinutes :
     \E reads \in ClockReads(count, t) :
      /\ now' = t
      /\ clockReads' = reads
      /\ schedule' = calculateSchedule(count, t, reads)
      /\ pc' = "computed"
      /\ UNCHANGED <<configured, dirExists, outputDir, published, delLog, retained, libraryVars, producerVars, dryRun, pendingVideos, i, results,
                     uploadCalls, inserts, deleted, cmd, readFailed, fatal>>

SchedNext == CalculateScheduleCall

SchedSpec == Init /\ [][SchedNext]_vars

----------------------------------------------------------------------------
(* LongSchedSpec: calculateSchedule for batches that span more than a day  *)

\* clock readings on day 1: in every hour the full hour, twenty past, and ten
\* minutes before the next hour
LongTimes ==
  {MinutesPerDay + h * MinutesPerHour + m : h \in 0..(HoursPerDay - 1), m \in {0, 20, 50}}

CalculateLongScheduleCall ==
  /\ pc = "idle"
  /\ \E count \in 0..MaxBatch, t \in LongTimes :
     \E reads \in RunClockReads(count, t) :
      /\ now' = t
      /\ clockReads' = reads
      /\ schedule' = calculateSchedule(count, t, reads)
      /\ pc' = "computed"
      /\ UNCHANGED <<configured, dirExists, outputDir, published, delLog, retained, libraryVars,
                     producerVars, dryRun, pendingVideos, i, results,
                     uploadCalls, inserts, deleted, cmd, readFailed, fatal>>

LongSchedNext == CalculateLongScheduleCall

LongSchedSpec == Init /\ [][LongSchedNext]_vars

----------------------------------------------------------------------------
(* Properties of calculateSchedule (specification SchedSpec) *)

Computed == pc = "computed"

\* C2: for every count >= 1 and every current time the schedule has count
\* timestamps, strictly increasing, each consecutive pair exactly GapMinutes
\* (30) minutes apart.
C2_ScheduleMonotone ==
  Computed =>
    \A k \in 1..(Len(schedule) - 1) : schedule[k + 1] - schedule[k] = GapMinutes

\* C3: every timestamp of the schedule is at least MinLeadMinutes (15) later
\* than the time `now` at which the schedule was computed, and than the
\* Date.now() reading it was compared with, also after a one-day advancement.
C3_MinimumLead ==
  Computed =>
    \A k \in 1..Len(schedule) :
      /\ schedule[k] >= now + MinLeadMinutes
      /\ schedule[k] >= clockReads[k] + MinLeadMinutes

\* C3 witness: a slot whose nominal time was too early and was advanced a day
C3_Witness ==
  /\ Computed
  /\ \E k \in 1..Len(schedule) :
       /\ nominalTime(k - 1, now) < clockReads[k] + MinLeadMinutes
       /\ schedule[k] = addUTCDay(nominalTime(k - 1, now))

\* C4: run at a reference (UTC-5) hour before 18, the first slot falls on the
\* current reference calendar day; run at reference hour 18 or later, it
\* falls on the next reference calendar day, exactly.
C4_AnchorDay ==
  (Computed /\ Len(schedule) >= 1) =>
    IF ESTHourOf(now) < PeakStartHour
      THEN ESTDay(schedule[1]) = ESTDay(now)
      ELSE ESTDay(schedule[1]) = ESTDay(now) + 1

\* C22: calculateSchedule is a deterministic function of count and of a single
\* reading of the current time: the clock is read once per computation (every
\* reading the computation uses is `now`), and any other computation with the
\* same count and the same `now` returns the same schedule.
C22_DeterministicInNow ==
  Computed =>
    /\ \A k \in 1..Len(clockReads) : clockReads[k] = now
    /\ \A reads \in ClockReads(Len(schedule), now) :
         calculateSchedule(Len(schedule), now, reads) = schedule

----------------------------------------------------------------------------
(* Properties of calculateSchedule for long batches (specification         *)
(* LongSchedSpec)                                                          *)

\* 18:00 reference time of the reference calendar day of instant t
PeakStartOfDay(t) ==
  ESTDay(t) * MinutesPerDay + (PeakStartHour - EstOffset) * MinutesPerHour

\* minutes since reference-time midnight
ESTMinuteOfDay(t) == (t + EstOffset * MinutesPerHour) % MinutesPerDay

\* C18: invoked at a reference-timezone hour before 18 with the peak start at
\* least 15 minutes away, slot i is today's 18:00 reference time plus
\* i x 30 minutes, for every i < count and every count.
C18_SlotsFromTodaysPeak ==
  (/\ Computed
   /\ ESTHourOf(now) < PeakStartHour
   /\ \A k \in 1..Len(schedule) : PeakStartOfDay(now) >= clockReads[k] + MinLeadMinutes)
  => \A k \in 1..Len(schedule) :
        schedule[k] = PeakStartOfDay(now) + (k - 1) * GapMinutes

\* C19: for a batch of 6 pending videos, at whatever time of day the run
\* takes place, the publish times are 6:00, 6:30, 7:00, 7:30, 8:00 and
\* 8:30 PM reference time (UTC-5), all on one and the same reference
\* calendar day.
C19_SixSlotsOneEvening ==
  (Computed /\ Len(schedule) = 6) =>
    /\ \A k \in 1..6 :
         ESTMinuteOfDay(schedule[k]) = PeakStartHour * MinutesPerHour + (k - 1) * GapMinutes
    /\ \A k \in 1..6 : ESTDay(schedule[k]) = ESTDay(schedule[1])

\* UTC calendar date of an instant
UTCDay(t) == t \div MinutesPerDay

\* slot k (0-based) has an hour offset that passes midnight UTC
passesMidnight(k) ==
  (PeakStartHour - EstOffset) * MinutesPerHour + slotMinutes(k) >= MinutesPerDay

\* C26: all timestamps of one computed schedule are pairwise distinct, also
\* when count x GapMinutes exceeds 24 hours, and a slot whose hour offset
\* passes midnight lies on a day after the anchor date instead of wrapping
\* back onto it.
C26_SlotsPairwiseDistinct ==
  Computed =>
    /\ \A a, b \in 1..Len(schedule) : a # b => schedule[a] # schedule[b]
    /\ \A k \in 1..Len(schedule) :
         passesMidnight(k - 1) => UTCDay(schedule[k]) > UTCDay(anchorDate(now))

----------------------------------------------------------------------------
(* Properties of uploadAllPending (specification Spec) *)

\* an uploadAllPending is running or has returned (it did not end in a throw)
InRun ==
  /\ cmd \in {"upload", "batch"}
  /\ fatal = "none"
  /\ pc \in {"uploading", "awaiting", "done"}

LiveRun == InRun /\ ~dryRun

LiveDone == pc = "done" /\ ~dryRun

Snapshot == {pendingVideos[k] : k \in 1..Len(pendingVideos)}

\* indices of the results recorded for a path
ResultsOf(v) == {k \in 1..Len(results) : results[k].videoPath = v}

IsSuccess(r) == "success" \in DOMAIN r /\ r.success

IsFailure(r) == "success" \in DOMAIN r /\ ~r.success

\* the upload of v returned success in this run
UploadSucceeded(v) == \E k \in ResultsOf(v) : IsSuccess(results[k])

\* uploader.uploadVideo threw for v in this run
UploadFailed(v) ==
  \E k \in ResultsOf(v) : IsFailure(results[k]) /\ results[k].error \in UploadErrors

CallsOf(v) == {k \in 1..Len(uploadCalls) : uploadCalls[k].videoPath = v}

\* C1: after a live run, a snapshot item is still in the output directory
\* exactly when its upload failed: every successfully uploaded item is gone
\* and every item that is gone has a recorded success result.
C1_QueueEqualsFailed ==
  LiveDone =>
    \A v \in Snapshot : (v \in Names(outputDir)) <=> ~UploadSucceeded(v)

\* C5: a dry run never calls uploader.uploadVideo and never deletes or changes
\* a file of the output directory, whatever the queue size: no step taken
\* under a dry run issues an upload or removes a file, and the directory is
\* the same after the run as before it.
C5_DryRunPure ==
  [][(dryRun' /\ pc' # "computed" /\ publisherVars' # publisherVars) =>
       /\ pc' \in {"idle", "done"}
       /\ uploadCalls' = <<>>
       /\ inserts' = <<>>
       /\ deleted' = {}
       /\ outputDir' = outputDir]_vars

\* C5 witness: a finished dry run over a queue of at least two videos
C5_Witness ==
  /\ InRun
  /\ pc = "done"
  /\ dryRun
  /\ Len(pendingVideos) >= 2
  /\ Len(results) = Len(pendingVideos)
  /\ Snapshot \subseteq Names(outputDir)

\* C6: in a live run an item whose upload failed keeps its file and is not
\* tried again, and the later items are still attempted: item k of the
\* snapshot gets upload attempt k and no other, whatever the other outcomes.
C6_FailureIsolated ==
  LiveRun =>
    /\ \A k \in 1..Len(uploadCalls) : uploadCalls[k].videoPath = pendingVideos[k]
    /\ \A v \in Snapshot : Cardinality(CallsOf(v)) <= 1
    /\ \A v \in Snapshot : UploadFailed(v) => (v \in Names(outputDir) /\ v \notin deleted)
    /\ pc = "done" => Len(uploadCalls) = Len(pendingVideos)

\* C6 witness: the first item failed, was kept, and a later item was uploaded
C6_Witness ==
  /\ LiveDone
  /\ Len(pendingVideos) >= 2
  /\ UploadFailed(pendingVideos[1])
  /\ pendingVideos[1] \in Names(outputDir)
  /\ \E k \in 2..Len(pendingVideos) : UploadSucceeded(pendingVideos[k])

\* C7: in a live run a file is deleted only after the upload call for that
\* same file has returned success: every deleted file has its success result,
\* and a file whose upload failed or was not attempted yet is still there.
C7_DeleteAfterSuccess ==
  LiveRun =>
    /\ \A v \in deleted : UploadSucceeded(v) /\ CallsOf(v) # {}
    /\ \A v \in Snapshot : v \notin deleted => v \in Names(outputDir)
    /\ \A v \in Snapshot : (~UploadSucceeded(v)) => v \in Names(outputDir)

\* C7 witness: one file deleted after its success, another kept after a failure
C7_Witness ==
  /\ LiveRun
  /\ \E v \in Snapshot : v \in deleted /\ UploadSucceeded(v)
  /\ \E v \in Snapshot : UploadFailed(v) /\ v \in Names(outputDir)

\* C8: a live run returns exactly one result per video of its snapshot: the
\* result list has the snapshot's length and no video has two results.
C8_OneResultPerVideo ==
  LiveDone =>
    /\ Len(results) = Len(pendingVideos)
    /\ \A v \in Snapshot : Cardinality(ResultsOf(v)) = 1

\* C9: in every run artifact k (oldest first) is paired with slot k, and
\* whenever artifact A is older than artifact B the publish time paired with
\* A is strictly earlier than the one paired with B.
C9_OldestGetsEarliest ==
  (InRun /\ Len(pendingVideos) > 0) =>
    /\ \A k \in 1..Len(uploadCalls) :
         DateParse(uploadCalls[k].options.publishAt) = schedule[k]
    /\ \A k \in 1..Len(results) :
         "scheduledFor" \in DOMAIN results[k] =>
            \E j \in 1..Len(pendingVideos) :
               pendingVideos[j] = results[k].videoPath /\ results[k].scheduledFor = schedule[j]
    /\ \A a, b \in 1..Len(pendingVideos) :
         (/\ pendingVideos[a] \in Names(outputDir)
          /\ pendingVideos[b] \in Names(outputDir)
          /\ Mtime(outputDir, pendingVideos[a]) < Mtime(outputDir, pendingVideos[b]))
         => schedule[a] < schedule[b]

\* C10: every upload uploadAllPending issues asks for privacy 'private' with
\* publishAt the paired slot, and is submitted so; generateMetadata answers
\* 'private' whenever publishAt is present, whatever privacy was requested,
\* and attaches publishAt only when one was given.
C10_PrivateScheduled ==
  /\ LiveRun =>
       /\ \A k \in 1..Len(uploadCalls) :
            /\ uploadCalls[k].options.privacyStatus = "private"
            /\ DateParse(uploadCalls[k].options.publishAt) = schedule[k]
       /\ \A k \in 1..Len(inserts) :
            /\ inserts[k].status.privacyStatus = "private"
            /\ "publishAt" \in DOMAIN inserts[k].status
            /\ DateParse(inserts[k].status.publishAt) = schedule[inserts[k].index]
            /\ inserts[k].videoPath = pendingVideos[inserts[k].index]
  /\ \A requested \in PrivacyStatuses :
       /\ \A k \in 1..Len(schedule) :
            /\ generateMetadata(requested, toISOString(schedule[k])).privacyStatus = "private"
            /\ generateMetadata(requested, toISOString(schedule[k])).publishAt
                 = toISOString(schedule[k])
       /\ generateMetadata(requested, NoPublishAt).privacyStatus = requested
       /\ "publishAt" \notin DOMAIN generateMetadata(requested, NoPublishAt)

\* C10 witness: two uploads submitted in one live run, the second one scheduled
\* on a later calendar day than the run
C10_Witness ==
  /\ LiveRun
  /\ Len(inserts) >= 2
  /\ \E k \in 1..Len(inserts) : UploadSucceeded(inserts[k].videoPath)
  /\ inserts[2].status.publishAt.day > toISOString(now).day

\* calls of uploader.uploadVideo of this run that have neither returned nor
\* thrown yet
InFlight == {k \in 1..Len(uploadCalls) : ResultsOf(uploadCalls[k].videoPath) = {}}

\* C23: during a live run at most one call of uploader.uploadVideo is in
\* flight at any moment: when the upload of item k + 1 has been started, the
\* upload of item k has succeeded or failed and, if it succeeded, the file of
\* item k has been deleted.
C23_OneUploadInFlight ==
  LiveRun =>
    /\ Cardinality(InFlight) <= 1
    /\ \A k \in 1..(Len(uploadCalls) - 1) :
         /\ ResultsOf(pendingVideos[k]) # {}
         /\ UploadSucceeded(pendingVideos[k]) => pendingVideos[k] \notin Names(outputDir)

\* C24: every result of a live run, success or failure, carries the video's
\* path, a success flag, the slot the video was scheduled for, and the
\* external video id (on success) or an error description (on failure).
C24_ResultAttributes ==
  LiveRun =>
    \A k \in 1..Len(results) :
      /\ {"videoPath", "success", "scheduledFor"} \subseteq DOMAIN results[k]
      /\ IF results[k].success
           THEN "videoId" \in DOMAIN results[k]
           ELSE "error" \in DOMAIN results[k]

----------------------------------------------------------------------------
(* RetrySpec: `upload` run again and again over a directory of finished    *)
(* videos while nothing is generated                                       *)

RetryInit ==
  /\ configured = TRUE
  /\ dirExists = TRUE
  /\ outputDir \in SUBSET FinishedVideos
  /\ NothingRun

\* the videos for which uploader.uploadVideo threw in the run that has returned
failedInRun == {v \in Snapshot : UploadFailed(v)}

\* the next `upload` process is started; what the run before it left behind
\* after a failure is remembered in `retained`
RetryUploadRun(dry, readError) ==
  /\ caseUpload(dry, readError)
  /\ retained' = retained \cup failedInRun
  /\ UNCHANGED <<producerVars, libraryVars>>

RetryNext ==
  \/ \E dry, readError \in BOOLEAN : RetryUploadRun(dry, readError)
  \/ UploadVideoCall
  \/ \E err \in UploadErrors : UploadVideoRejects(err)
  \/ \E unlinkThrows \in BOOLEAN : UploadVideoResolves(unlinkThrows)

RetrySpec == RetryInit /\ [][RetryNext]_vars

\* a live `upload` run is started and reads its snapshot
LiveUploadRun == RetryUploadRun(FALSE, FALSE)

\* the pending uploader.uploadVideo call returns or throws
UploadReturns ==
  \/ \E err \in UploadErrors : UploadVideoRejects(err)
  \/ \E unlinkThrows \in BOOLEAN : UploadVideoResolves(unlinkThrows)

\* uploader.uploadVideo returns success for video v
UploadSucceedsFor(v) ==
  /\ pc = "awaiting"
  /\ pendingVideos[i] = v
  /\ \E unlinkThrows \in BOOLEAN : UploadVideoResolves(unlinkThrows)

\* the upload command is run again and again, a started run goes through its
\* loop (every await returns), and for every video the upload succeeds in
\* some run whenever it keeps being attempted
RetryFairness ==
  /\ WF_vars(LiveUploadRun)
  /\ WF_vars(UploadVideoCall)
  /\ WF_vars(UploadReturns)
  /\ \A v \in Names(FinishedVideos) : SF_vars(UploadSucceedsFor(v))

RetryFairSpec == RetryInit /\ [][RetryNext]_vars /\ RetryFairness

----------------------------------------------------------------------------
(* Properties of repeated upload runs (specification RetrySpec) *)

\* C25: slots are never carried over between runs: the schedule of a run has
\* one slot per video pending at the start of that run and is computed from
\* that run's own clock reading; the pending videos, those retained after a
\* failure in an earlier run included, are taken oldest first and video k is
\* submitted with slot k of this schedule.
C25_FreshScheduleEachRun ==
  (InRun /\ Len(pendingVideos) > 0) =>
    /\ Len(schedule) = Len(pendingVideos)
    /\ schedule = calculateSchedule(Len(pendingVideos), now, clockReads)
    /\ \A k \in 1..Len(clockReads) : clockReads[k] \in now..(now + MaxClockLag)
    /\ \A v \in retained : v \in Names(outputDir) => v \in Snapshot
    /\ \A a, b \in 1..Len(pendingVideos) :
         (/\ a < b
          /\ pendingVideos[a] \in Names(outputDir)
          /\ pendingVideos[b] \in Names(outputDir))
         => Mtime(outputDir, pendingVideos[a]) <= Mtime(outputDir, pendingVideos[b])
    /\ \A k \in 1..Len(uploadCalls) :
         /\ uploadCalls[k].videoPath = pendingVideos[k]
         /\ DateParse(uploadCalls[k].options.publishAt) = schedule[k]

\* C25 witness: a live run whose only pending video was retained after its
\* upload failed in an earlier run, in which another video was published; the
\* retained video has been submitted with the first slot of a one-slot schedule
C25_Witness ==
  /\ LiveRun
  /\ published # {}
  /\ Len(pendingVideos) = 1
  /\ pendingVideos[1] \in retained
  /\ pendingVideos[1] \notin published
  /\ Len(schedule) = 1
  /\ Len(uploadCalls) = 1
  /\ DateParse(uploadCalls[1].options.publishAt) = schedule[1]

\* C27: when the upload command is run repeatedly while no new video is
\* generated, and for every pending video the upload eventually succeeds in
\* some run, every video that is pending is eventually published and gone
\* from the queue: the pending queue eventually becomes empty.
C27_RetryDrainsQueue ==
  \A v \in Names(FinishedVideos) :
    (v \in Names(outputDir)) ~> (v \notin Names(outputDir) /\ v \in published)

----------------------------------------------------------------------------
(* Properties of fetchMemes (specification FetchSpec) *)

\* C28: fetchMemes(count) queries each configured source at most once and
\* makes at most NumSources (|memeSources|) source fetches whatever their
\* outcomes are; it goes on only while memes are missing and a source is
\* untried, and it either returns exactly count memes taken from pairwise
\* different sources or throws once all sources have been tried.
C28_FetchMemesBounded ==
  /\ \A a, b \in 1..Len(fetchLog) : a # b => fetchLog[a] # fetchLog[b]
  /\ Len(fetchLog) <= NumSources
  /\ triedSources = {fetchLog[k] : k \in 1..Len(fetchLog)}
  /\ \A a \in 1..Len(memes) : memes[a].source \in triedSources
  /\ Len(memes) <= fcount
  /\ fpc = "fetching" => Len(memes) < fcount
  /\ fpc = "returned" =>
       /\ Len(memes) = fcount
       /\ \A a, b \in 1..Len(memes) : a # b => memes[a].source # memes[b].source
  /\ fpc = "thrown" =>
       /\ Len(memes) < fcount
       /\ triedSources = MemeSources

\* C28 witness: two memes were asked for and returned although a source in
\* between gave none
C28_Witness ==
  /\ fpc = "returned"
  /\ fcount = 2
  /\ Len(memes) = 2
  /\ Len(fetchLog) = 3
  /\ memes[1].source # memes[2].source

----------------------------------------------------------------------------
(* Properties of the download loop (specification DownloadSpec) *)

\* C29: in a generate cycle each meme image path handed to the encoder is the
\* path at which downloadImage wrote that image (a file of the temp
\* directory), for every combination of URL extension and detected image
\* signature, also when downloadImage corrects the extension.
C29_EncoderGetsWrittenPaths ==
  dpc = "encoder" =>
    \A k \in 1..Len(memePaths) :
      /\ memePaths[k] = writtenPaths[k]
      /\ memePaths[k] \in tempDir

----------------------------------------------------------------------------
(* Properties of getAccessToken (specification TokenSpec) *)

\* the last call found a token in the cache with more than the buffer to go
SawValidToken ==
  /\ tokenCall.seenToken # 0
  /\ tokenCall.seenExpiry # 0
  /\ tokenCall.at + TokenBufferSeconds < tokenCall.seenExpiry

\* C30: getAccessToken returns the cached token without a token request only
\* while the current time is more than 60 seconds before the cached expiry;
\* otherwise it requests a new token and caches it with its new expiry, and
\* when the request fails it throws and leaves the cached token and expiry
\* as they were.
C30_TokenCache ==
  /\ tokenCall.outcome = "cached" =>
       /\ SawValidToken
       /\ tokenCall.token = tokenCall.seenToken
       /\ authRequests = tokenCall.seenRequests
       /\ accessToken = tokenCall.seenToken
       /\ tokenExpiry = tokenCall.seenExpiry
  /\ tokenCall.outcome \in {"pending", "fresh", "thrown"} =>
       /\ ~SawValidToken
       /\ authRequests = tokenCall.seenRequests + 1
  /\ tokenCall.outcome = "fresh" =>
       /\ accessToken = tokenCall.token
       /\ tokenCall.token # tokenCall.seenToken
       /\ tokenExpiry = tokenCall.resolvedAt + tokenCall.expiresIn
       /\ tokenCall.resolvedAt >= tokenCall.at
  /\ tokenCall.outcome \in {"pending", "thrown"} =>
       /\ accessToken = tokenCall.seenToken
       /\ tokenExpiry = tokenCall.seenExpiry

\* C30 witness: a cached token is returned at the last second before the
\* buffer begins, some seconds after it was issued, and no request is made
C30_Witness ==
  /\ tokenCall.outcome = "cached"
  /\ tokenCall.at + TokenBufferSeconds + 1 = tokenExpiry
  /\ tokenCall.at > 1
  /\ authRequests >= 1
  /\ tpc = "idle"

----------------------------------------------------------------------------
(* Properties of the producer and of the queue (specification Spec) *)

\* the entries getPendingVideos lists when it is called now
Listable(dir) == {e \in dir : endsWithMp4(e.name)}

\* C11: at every moment every .mp4 file that getPendingVideos can list in the
\* output directory is a completely produced video: no file is visible
\* under its final name before its encoding has ended with success, so no
\* upload or status run can list, upload or delete a partly written file.
C11_ListedIsComplete ==
  /\ \A e \in Listable(outputDir) : e.complete
  /\ \A k \in 1..Len(uploadCalls) :
       \A e \in outputDir : e.name = uploadCalls[k].videoPath => e.complete

\* C13: across any sequence of live upload runs, failed items being retried
\* by later runs, an artifact that has received a success result is never
\* submitted to uploader.uploadVideo again: each artifact is published with
\* success at most once.
C13_PublishedAtMostOnce ==
  [][Len(uploadCalls') > Len(uploadCalls) =>
       uploadCalls'[Len(uploadCalls')].videoPath \notin published]_vars

\* a command that calls getPendingVideos has run in the publisher process
QueueRead == cmd \in {"upload", "batch", "status"} /\ fatal # "notConfigured"

\* C15: getPendingVideos returns an empty list, without raising, when the
\* output directory does not exist, and uploadAllPending on an empty queue
\* returns an empty result list without calling the uploader.
C15_EmptyQueueIsNoError ==
  /\ (QueueRead /\ ~dirExists) =>
       /\ ~readFailed
       /\ fatal = "none"
       /\ pendingVideos = <<>>
  /\ (InRun /\ Len(pendingVideos) = 0) =>
       /\ pc = "done"
       /\ results = <<>>
       /\ uploadCalls = <<>>
       /\ inserts = <<>>

\* C15 witness: an upload run that found no output directory has returned
C15_Witness ==
  /\ InRun
  /\ ~dirExists
  /\ pc = "done"
  /\ results = <<>>

\* C17: a failure to read the output directory (directory present but
\* unreadable, or an entry that can no longer be stat'ed while the listing is
\* sorted) is treated as an empty queue: getPendingVideos, the status
\* command and uploadAllPending complete without a fatal error.
C17_ReadFailureIsEmptyQueue ==
  /\ readFailed =>
       /\ fatal = "none"
       /\ pc = "done"
       /\ pendingVideos = <<>>
       /\ results = <<>>
  /\ gResult # "readError"

----------------------------------------------------------------------------
(* Properties of the commands run one after the other (specification       *)
(* CmdSpec)                                                                *)

\* what ends a generate cycle with a throw
CycleErrors == PrepareErrors \cup {"encoderError"}

\* the step in which generateSingleVideo throws
CycleFails ==
  /\ gpc' = "idle"
  /\ gResult' \in CycleErrors
  /\ generated' = generated
  /\ <<gcmd, gpc, gResult, batchLeft>>' # <<gcmd, gpc, gResult, batchLeft>>

\* C12: when a generate cycle fails at any step (no background video, meme
\* sources exhausted, image download or validation failure, encoder error)
\* getPendingVideos lists after the failure what it listed before the cycle
\* started: a failure before the encoder changes no file, and after an
\* encoder error the cycle's own output path is not listed.
C12_FailedCycleKeepsQueue ==
  [][CycleFails =>
       /\ gResult' \in PrepareErrors => outputDir' = outputDir
       /\ gResult' = "encoderError" =>
            VideoName(generated') \notin Names(Listable(outputDir'))]_vars

BatchCommands == {"batch", "batch --dry-run"}

\* the exit code of the producer's process: main().catch turns every throw
\* into process.exit(1); a main() that returns ends with code 0
producerExitCode(result) == IF result \in CycleErrors \cup {"readError"} THEN 1 ELSE 0

\* a step of the process that runs the batch command (a new command is a new
\* process)
BatchProcessStep ==
  \/ \E outcome \in PrepareOutcomes : BatchLoopIteration(outcome)
  \/ EncoderOpensOutput
  \/ EncoderFails
  \/ \E readError \in BOOLEAN : EncoderEnds(readError)
  \/ \E readError \in BOOLEAN : BatchUploadStep(readError)
  \/ UploadVideoCall

\* C21: in the batch command the productions run strictly one after another
\* (a production is started only from the loop head, after the one before it
\* has ended); at the first production that fails the process exits with a
\* non-zero code, and after that it starts no further production and never
\* invokes uploadAllPending.
C21_BatchAbortsOnFirstFailure ==
  [][/\ (gcmd' \in BatchCommands /\ gpc' = "encoding" /\ gpc # "encoding") =>
          gpc = "batchLoop" /\ batchLeft > 0
     /\ (gcmd \in BatchCommands /\ gcmd' = gcmd /\ CycleFails) =>
          /\ gpc' = "idle"
          /\ producerExitCode(gResult') = 1
          /\ publisherVars' = publisherVars
     /\ (gcmd \in BatchCommands /\ gResult \in CycleErrors) =>
          ~BatchProcessStep]_vars

\* C21 witness: a batch of two on a configured machine whose first production
\* failed in the encoder: one iteration was never started, nothing was
\* uploaded
C21_Witness ==
  /\ gcmd = "batch"
  /\ configured
  /\ gResult = "encoderError"
  /\ producerExitCode(gResult) = 1
  /\ batchLeft = 1
  /\ gpc = "idle"
  /\ cmd = "none"
  /\ uploadCalls = <<>>

\* C16: getPendingVideos returns exactly the entries of the output directory
\* whose name carries the .mp4 marker and that are not hidden (name starting
\* with '.'): a hidden entry is never listed, scheduled, uploaded or deleted.
C16_HiddenNeverListed ==
  /\ \A k \in 1..Len(pendingVideos) :
       endsWithMp4(pendingVideos[k]) /\ ~startsWithDot(pendingVideos[k])
  /\ \A k \in 1..Len(uploadCalls) : ~startsWithDot(uploadCalls[k].videoPath)
  /\ \A v \in deleted : ~startsWithDot(v)

\* C20: when the publishing capability is not configured (client_secrets.json
\* absent), a command that would publish (upload, or batch without
\* --dry-run) ends with a fatal error and a non-zero exit before any video
\* is generated, listed, uploaded or deleted: no partial work is attempted.
C20_NotConfiguredIsFatal ==
  ~configured =>
    /\ cmd = "upload" =>
         /\ fatal = "notConfigured"
         /\ pc = "done"
         /\ pendingVideos = <<>>
         /\ uploadCalls = <<>>
         /\ deleted = {}
    /\ gcmd = "batch" =>
         /\ gpc \notin {"encoding", "writing"}
         /\ gpc = "idle" => gResult = "notConfigured"

----------------------------------------------------------------------------
(* Properties of deleteVideo (specification DeleteSpec) *)

\* C14: deleteVideo is idempotent: called on a path whose file is already
\* absent it raises no error and changes nothing, so a second deleteVideo
\* right after a deleteVideo of the same path that returned leaves the
\* state the first call left.
C14_DeleteIdempotent ==
  /\ \A k \in 1..Len(delLog) :
       delLog[k].videoPath \notin Names(delLog[k].before) =>
          ~delLog[k].threw /\ delLog[k].after = delLog[k].before
  /\ \A k \in 1..(Len(delLog) - 1) :
       (delLog[k + 1].videoPath = delLog[k].videoPath /\ ~delLog[k].threw) =>
          ~delLog[k + 1].threw /\ delLog[k + 1].after = delLog[k].after

\* C14 witness: a file is deleted and deleteVideo is called on it once more
C14_Witness ==
  /\ Len(delLog) >= 2
  /\ delLog[1].videoPath \in Names(delLog[1].before)
  /\ delLog[1].videoPath \notin Names(delLog[1].after)
  /\ delLog[2].videoPath = delLog[1].videoPath
  /\ outputDir = delLog[1].after

====
